---- MODULE Spec2Model ----
(***************************************************************************)
(* Model of the Ollama API wrapper: the generation orchestrator           *)
(* (src/llm_wrapper.py, class OllamaApiWrapper), the HTTP gateway in front *)
(* of it (src/app.py) and the gateway's key store (src/db.py).  Texts are  *)
(* TLA+ strings; one request is followed from its arrival to its last      *)
(* result.                                                                 *)
(***************************************************************************)
EXTENDS Integers, Sequences, FiniteSets, TLC

(***************************************************************************)
(* Bounds of the model.                                                    *)
(***************************************************************************)
MaxRetriesBound == 2   \* max_retries is drawn from 0..MaxRetriesBound
MaxLines == 3          \* lines one backend stream delivers at most
MaxTextLen == 2        \* length of the short texts given to the Prompt Builder
MaxMessages == 2       \* length of the message lists given to the Prompt Builder
MaxSanitizeCalls == 2  \* times sanitize_input is applied to its own result
MaxConcurrentLines == 1  \* lines per stream when two requests run side by side
MaxRunLines == 2         \* lines per stream when a request is run to its end

(***************************************************************************)
(* Characters and strings.                                                 *)
(***************************************************************************)
LowerCase == "abcdefghijklmnopqrstuvwxyz"
UpperCase == "ABCDEFGHIJKLMNOPQRSTUVWXYZ"
DigitChars == "0123456789"

CharAt(s, i) == SubSeq(s, i, i)

\* Python's `sub in s` on strings
Contains(s, sub) ==
    \E i \in 1..(Len(s) - Len(sub) + 1) : SubSeq(s, i, i + Len(sub) - 1) = sub

LowerLetters == {CharAt(LowerCase, i) : i \in 1..Len(LowerCase)}
UpperLetters == {CharAt(UpperCase, i) : i \in 1..Len(UpperCase)}
Digits == {CharAt(DigitChars, i) : i \in 1..Len(DigitChars)}

IsLetter(c) == c \in LowerLetters \/ c \in UpperLetters
IsDigit(c) == c \in Digits
IsSpace(c) == c \in {" ", "\n", "\t", "\r"}

(***************************************************************************)
(* count_tokens: the number of tokens of a text.  The encoder is the       *)
(* external cl100k_base; it is modelled by its pre-tokenisation: a run of  *)
(* letters (with one leading blank) is one token, digits are grouped by    *)
(* three, every other character is a token of its own.  The count is not   *)
(* additive over concatenation ("1" and "1" are two tokens, "11" is one).  *)
(***************************************************************************)
\* the number of digits that end right before position i
RECURSIVE DigitsBefore(_, _)
DigitsBefore(s, i) ==
    IF i > 1 /\ IsDigit(CharAt(s, i - 1)) THEN 1 + DigitsBefore(s, i - 1) ELSE 0

\* a token starts at position i
TokenStart(s, i) ==
    LET c == CharAt(s, i)
        prev == IF i = 1 THEN "" ELSE CharAt(s, i - 1)
    IN  IF IsLetter(c) THEN ~(IsLetter(prev) \/ prev = " ")
        ELSE IF IsDigit(c) THEN DigitsBefore(s, i) % 3 = 0
        ELSE TRUE

count_tokens(text) == Cardinality({i \in 1..Len(text) : TokenStart(text, i)})

(***************************************************************************)
(* json.loads on the texts of the model, which are built from digits,      *)
(* letters, blanks and the pieces {"a": and }.  On these texts the parser  *)
(* accepts a non-empty run of digits (an integer) and {"a":V} for an       *)
(* accepted V; everything else raises JSONDecodeError (ok = FALSE).        *)
(* A parsed value is [depth, num]: num wrapped in depth objects.           *)
(***************************************************************************)
ObjOpen == "{\"a\":"
ObjClose == "}"

RECURSIVE AllDigits(_)
AllDigits(s) == s = "" \/ (IsDigit(CharAt(s, 1)) /\ AllDigits(SubSeq(s, 2, Len(s))))

DigitValue(c) == CHOOSE d \in 0..9 : CharAt(DigitChars, d + 1) = c

RECURSIVE IntValue(_)
IntValue(s) ==
    IF s = "" THEN 0
    ELSE 10 * IntValue(SubSeq(s, 1, Len(s) - 1)) + DigitValue(CharAt(s, Len(s)))

JsonFail == [ok |-> FALSE, depth |-> 0, num |-> 0]

RECURSIVE json_loads(_)
json_loads(s) ==
    IF s # "" /\ AllDigits(s)
    THEN [ok |-> TRUE, depth |-> 0, num |-> IntValue(s)]
    ELSE IF /\ Len(s) > Len(ObjOpen) + Len(ObjClose)
            /\ SubSeq(s, 1, Len(ObjOpen)) = ObjOpen
            /\ CharAt(s, Len(s)) = ObjClose
    THEN LET inner == json_loads(SubSeq(s, Len(ObjOpen) + 1, Len(s) - 1)) IN
         IF inner.ok THEN [inner EXCEPT !.depth = @ + 1] ELSE JsonFail
    ELSE JsonFail

(***************************************************************************)
(* Prompt Builder: sanitize_input and construct_prompt.                    *)
(***************************************************************************)
SanitizeLimit == 1000

\* the character class [\w\s.,!?-] of sanitize_input
IsAllowedChar(c) ==
    IsLetter(c) \/ IsDigit(c) \/ c = "_" \/ IsSpace(c) \/ c \in {".", ",", "!", "?", "-"}

StripFirstDisallowed(s) ==
    IF \A i \in 1..Len(s) : IsAllowedChar(CharAt(s, i)) THEN s
    ELSE LET first == CHOOSE i \in 1..Len(s) :
                          /\ ~IsAllowedChar(CharAt(s, i))
                          /\ \A k \in 1..(i - 1) : IsAllowedChar(CharAt(s, k))
         IN  SubSeq(s, 1, first - 1) \o SubSeq(s, first + 1, Len(s))

\* re.sub(r'[^\w\s.,!?-]', '', s): every character outside the class is
\* dropped (the text is worked through by halves)
RECURSIVE StripDisallowed(_)
StripDisallowed(s) ==
    IF Len(s) = 0 THEN ""
    ELSE IF Len(s) = 1 THEN (IF IsAllowedChar(s) THEN s ELSE "")
    ELSE LET half == Len(s) \div 2
         IN  StripDisallowed(SubSeq(s, 1, half)) \o StripDisallowed(SubSeq(s, half + 1, Len(s)))

Min(a, b) == IF a < b THEN a ELSE b

sanitize_input_untruncated(input_string) == StripDisallowed(input_string)

sanitize_input(input_string) ==
    LET sanitized == StripDisallowed(input_string)
    IN  SubSeq(sanitized, 1, Min(Len(sanitized), SanitizeLimit))

LetterIndex(alphabet, c) == CHOOSE i \in 1..Len(alphabet) : CharAt(alphabet, i) = c
ToUpper(c) == IF Contains(LowerCase, c) THEN CharAt(UpperCase, LetterIndex(LowerCase, c)) ELSE c
ToLower(c) == IF Contains(UpperCase, c) THEN CharAt(LowerCase, LetterIndex(UpperCase, c)) ELSE c

RECURSIVE LowerAll(_)
LowerAll(s) == IF s = "" THEN "" ELSE ToLower(CharAt(s, 1)) \o LowerAll(SubSeq(s, 2, Len(s)))

\* str.capitalize()
capitalize(s) == IF s = "" THEN "" ELSE ToUpper(CharAt(s, 1)) \o LowerAll(SubSeq(s, 2, Len(s)))

\* one element of a message list: a dict with role and content, or a string,
\* or anything else (which construct_prompt skips)
DictMessage(role, content) == [kind |-> "dict", role |-> role, content |-> content]
StrMessage(content) == [kind |-> "str", role |-> "", content |-> content]

RECURSIVE PromptParts(_)
PromptParts(messages) ==
    IF messages = <<>> THEN <<>>
    ELSE LET message == Head(messages)
             part == IF message.kind = "dict"
                     THEN <<capitalize(message.role) \o ": " \o sanitize_input(message.content)>>
                     ELSE IF message.kind = "str"
                     THEN <<sanitize_input(message.content)>>
                     ELSE <<>>
         IN  part \o PromptParts(Tail(messages))

RECURSIVE Join(_, _)
Join(sep, parts) ==
    IF parts = <<>> THEN ""
    ELSE IF Len(parts) = 1 THEN parts[1]
    ELSE parts[1] \o sep \o Join(sep, Tail(parts))

\* input_data is a plain string (kind "str") or a message list (kind "list")
StrInput(text) == [kind |-> "str", text |-> text, messages |-> <<>>]
ListInput(messages) == [kind |-> "list", text |-> "", messages |-> messages]
NoInput == [kind |-> "none", text |-> "", messages |-> <<>>]

construct_prompt(input_data) ==
    IF input_data.kind = "str"
    THEN sanitize_input(input_data.text)
    ELSE Join("\n\n", PromptParts(input_data.messages))

\* an element of a message list that is neither a dict nor a string
OtherMessage == [kind |-> "other", role |-> "", content |-> ""]

\* s repeated 2^k times
RECURSIVE Doubled(_, _)
Doubled(s, k) == IF k = 0 THEN s ELSE Doubled(s \o s, k - 1)

\* texts longer than the limit of sanitize_input, before and after the
\* disallowed characters are dropped (1536 and 1024 characters)
LongTexts == {Doubled("ab<c> ", 8), Doubled("x", 10)}

\* the characters the short texts are written in
TextAlphabet == {"a", "1", " ", "-", "<", "\""}

\* all texts of at most n characters over the alphabet
RECURSIVE TextsUpTo(_)
TextsUpTo(n) ==
    IF n = 0 THEN {""}
    ELSE TextsUpTo(n - 1) \cup {t \o c : t \in TextsUpTo(n - 1), c \in TextAlphabet}

\* the elements message lists are made of
MessageChoices ==
    { DictMessage("user", "2+2=<4>"), DictMessage("sYSTEM", "Be brief."),
      DictMessage("user", Doubled("ab<c> ", 8)), StrMessage("<b>Hi</b>"), OtherMessage }

\* all message lists of at most n elements
RECURSIVE MessageListsUpTo(_)
MessageListsUpTo(n) ==
    IF n = 0 THEN {<<>>}
    ELSE MessageListsUpTo(n - 1)
         \cup {Append(ms, m) : ms \in MessageListsUpTo(n - 1), m \in MessageChoices}

\* the inputs construct_prompt is tried on
PromptInputs ==
    {StrInput(t) : t \in TextsUpTo(MaxTextLen) \cup LongTexts}
    \cup {ListInput(ms) : ms \in MessageListsUpTo(MaxMessages)}

\* the inputs a request is drawn from
InputData ==
    { StrInput("Hi <b>there</b>!"),
      ListInput(<<DictMessage("system", "Be brief."), DictMessage("user", "2+2=?")>>) }

(***************************************************************************)
(* Results.  A usage is the dict of the three counters.  The `response` of *)
(* a result is a text, the dict of create_safe_json_response, or a parsed  *)
(* JSON value; the three shapes share one record, told apart by `kind`.    *)
(***************************************************************************)
Usage(p, c, t) == [prompt_tokens |-> p, completion_tokens |-> c, total_tokens |-> t]

TextResponse(text) ==
    [kind |-> "text", text |-> text, status |-> "", success |-> FALSE, depth |-> 0, num |-> 0]

create_safe_json_response(status, message) ==
    [kind |-> "dict", text |-> message, status |-> status,
     success |-> (status = "success"), depth |-> 0, num |-> 0]

JsonResponse(parsed) ==
    [kind |-> "json", text |-> "", status |-> "", success |-> FALSE,
     depth |-> parsed.depth, num |-> parsed.num]

Result(response, usage) == [response |-> response, usage |-> usage]

_combine_usage_partial_total(usage1, usage2) ==
    [prompt_tokens |-> usage1.prompt_tokens + usage2.prompt_tokens,
     completion_tokens |-> usage1.completion_tokens + usage2.completion_tokens,
     total_tokens |-> usage1.total_tokens + usage2.completion_tokens]

_combine_usage(usage1, usage2) ==
    [prompt_tokens |-> usage1.prompt_tokens + usage2.prompt_tokens,
     completion_tokens |-> usage1.completion_tokens + usage2.completion_tokens,
     total_tokens |-> usage1.total_tokens + usage2.total_tokens]

_process_json_response_own_usage(json_response, initial_usage) ==
    Result(json_response.response, json_response.usage)

_process_json_response(json_response, initial_usage) ==
    Result(json_response.response, _combine_usage(initial_usage, json_response.usage))

json_formatting_prompt ==
    "Format the following input into a valid JSON object. "
    \o "Return ONLY the JSON object, without any additional text, explanations, or code blocks. "
    \o "Here's the input to format into a JSON object:\n\n"

FallbackText == "Failed to generate response after multiple attempts"
JsonFailureText == "Failed to create valid JSON from LLM response"
StreamParseErrorText == "Failed to parse streaming response"

(***************************************************************************)
(* The backend.  A JSON object of the backend is a dict that may have an   *)
(* `error` field and may have a `response` field.                          *)
(***************************************************************************)
Dict(has_error, error, has_response, response) ==
    [has_error |-> has_error, error |-> error,
     has_response |-> has_response, response |-> response]

ResponseDict(text) == Dict(FALSE, "", TRUE, text)
ErrorDict(message) == Dict(TRUE, message, FALSE, "")
EmptyDict == Dict(FALSE, "", FALSE, "")

\* texts the backend generates in one piece
ResponseTexts == {"", "ok", "no error here", "{\"a\":1}"}

\* texts of the chunks of a streamed generation
ChunkTexts == {ObjOpen, "1", ObjClose}

\* messages of error objects the backend sends in a body
BodyErrors == {"model not found", "internal error"}

\* str(e) of the requests.RequestException of a failed call
TransportErrors == {"500 Server Error", "connection error"}

\* what response.json() returns for a 2xx body
BodyObjects ==
    {ResponseDict(t) : t \in ResponseTexts}
    \cup {ErrorDict(e) : e \in BodyErrors}
    \cup {EmptyDict, Dict(TRUE, "internal error", TRUE, "ok")}

\* what the HTTP exchange of one backend call comes to: a
\* requests.RequestException (connection error, non-2xx status) with its
\* message, or a 2xx answer with its body
Failure(exception) == [failed |-> TRUE, exception |-> exception, body |-> EmptyDict]
Answer(body) == [failed |-> FALSE, exception |-> "", body |-> body]

BlockingOutcomes ==
    {Failure(e) : e \in TransportErrors} \cup {Answer(body) : body \in BodyObjects}

StreamingOutcomes == {Failure(e) : e \in TransportErrors} \cup {Answer(EmptyDict)}

\* the except branch of _make_api_call
RequestFailedSilently(exception) == EmptyDict

RequestFailed(exception) == ErrorDict("API request failed: " \o exception)

\* the value _make_api_call returns; for a streaming call that did not fail
\* it is the generator of _process_stream, whose elements come line by line
_make_api_call(outcome) ==
    IF outcome.failed THEN RequestFailed(outcome.exception) ELSE outcome.body

\* one line of a streamed body: a JSON object, a line that is not JSON, or
\* an empty (keep-alive) line
JsonLine(obj) == [kind |-> "json", obj |-> obj]
MalformedLine == [kind |-> "malformed", obj |-> EmptyDict]
EmptyLine == [kind |-> "empty", obj |-> EmptyDict]

StreamLines ==
    {JsonLine(ResponseDict(t)) : t \in ChunkTexts}
    \cup {JsonLine(EmptyDict), JsonLine(ErrorDict("internal error")), MalformedLine, EmptyLine}

_process_stream_stops_parsing(line) ==
    IF line.kind = "json" THEN <<line.obj>> ELSE <<>>

\* _process_stream on one line: the elements it yields for it
_process_stream(line) ==
    IF line.kind = "empty" THEN <<>>
    ELSE IF line.kind = "json" THEN <<line.obj>>
    ELSE <<ErrorDict(StreamParseErrorText)>>

(***************************************************************************)
(* The HTTP gateway (src/app.py) and its key store (src/db.py).            *)
(***************************************************************************)
\* max_retries of OllamaApiWrapper(), the instance the gateway works with
DefaultMaxRetries == 3

\* the Authorization header of a request: none, or "Bearer " and a key
NoHeader == ""
ApiKeys == {"sk-active", "sk-revoked"}
AuthHeaders == {NoHeader} \cup {"Bearer " \o k : k \in ApiKeys}

\* auth_header.split(' ')[1] on a header that starts with "Bearer "
BearerKey(auth_header) == SubSeq(auth_header, Len("Bearer ") + 1, Len(auth_header))

\* rows of the key store: the active keys, the public models, and the
\* models granted to single keys (here to a key other than the callers')
ActiveKeys == {"sk-active"}
PublicModels == {"llama3"}
GrantedModels(api_key) == IF api_key = "sk-partner" THEN {"mixtral"} ELSE {}

\* the models a request may name
Models == {"llama3", "mixtral"}

\* db.verify_api_key; db_up is whether the database answers
verify_api_key(api_key, db_up) == db_up /\ api_key \in ActiveKeys

\* db.get_allowed_models: the ids of the rows it returns, none on failure
get_allowed_models(api_key, db_up) ==
    IF db_up THEN PublicModels \cup GrantedModels(api_key) ELSE {}

ModelAllowedAlways(model, allowed_models) == TRUE

\* any(m['id'] == model for m in allowed_models)
ModelAllowed(model, allowed_models) == model \in allowed_models

\* the message lists of the requests
GatewayMessages ==
    { <<DictMessage("user", "Hi")>>,
      <<DictMessage("system", "Be brief."), DictMessage("user", "2+2=?")>> }

DefaultSystemMessage == DictMessage("system", "You are a helpful AI assistant.")

\* chat_completions puts the default system message first when no message
\* has the role "system"
WithSystemMessage(messages) ==
    IF \E i \in 1..Len(messages) : messages[i].role = "system"
    THEN messages
    ELSE <<DefaultSystemMessage>> \o messages

\* str.strip()
RECURSIVE strip(_)
strip(s) ==
    IF s = "" THEN ""
    ELSE IF IsSpace(CharAt(s, 1)) THEN strip(SubSeq(s, 2, Len(s)))
    ELSE IF IsSpace(CharAt(s, Len(s))) THEN strip(SubSeq(s, 1, Len(s) - 1))
    ELSE s

RECURSIVE PromptLines(_)
PromptLines(messages) ==
    IF messages = <<>> THEN ""
    ELSE capitalize(Head(messages).role) \o ": " \o Head(messages).content \o "\n"
         \o PromptLines(Tail(messages))

\* construct_prompt of app.py: the gateway's own prompt, not sanitized
app_construct_prompt(messages) == strip(PromptLines(messages))

\* count_tokens of app.py: the same encoder as the orchestrator's
app_count_tokens(text) == count_tokens(text)

\* str(n) for a natural number
RECURSIVE IntToString(_)
IntToString(n) ==
    IF n < 10 THEN CharAt(DigitChars, n + 1)
    ELSE IntToString(n \div 10) \o CharAt(DigitChars, (n % 10) + 1)

RECURSIVE Spaces(_)
Spaces(n) == IF n = 0 THEN "" ELSE " " \o Spaces(n - 1)

\* json.dumps(parsed_json, indent=2) at nesting level `level`
RECURSIVE json_dumps_indent(_, _, _)
json_dumps_indent(depth, num, level) ==
    IF depth = 0 THEN IntToString(num)
    ELSE "{\n" \o Spaces(2 * (level + 1)) \o "\"a\": "
         \o json_dumps_indent(depth - 1, num, level + 1)
         \o "\n" \o Spaces(2 * level) \o "}"

\* one event of the event stream: a chunk event with its content and usage,
\* or the literal "data: [DONE]"
ChunkEvent(content, usage) == [kind |-> "chunk", content |-> content, usage |-> usage]
DoneEvent == [kind |-> "done", content |-> "[DONE]", usage |-> Usage(0, 0, 0)]

\* format_response_as_openai_response: the content and usage of the envelope
Envelope(content, usage) == [content |-> content, finish_reason |-> "stop", usage |-> usage]

\* the gateway before a request: not there at all (the class is used
\* directly), or listening
GatewayState(at) ==
    [pc |-> at, status |-> 0, model |-> "", allowed_models |-> {}, messages |-> <<>>,
     stream |-> FALSE, json_mode |-> FALSE,
     prompt_tokens |-> 0, completion_tokens |-> 0, accumulated_json |-> "",
     consumed |-> 0, events |-> <<>>, envelope |-> <<>>]

(***************************************************************************)
(* State of one request.                                                   *)
(***************************************************************************)
VARIABLES
    max_retries,         \* self.max_retries, set by the constructor
    pc,                  \* "idle", "full", "stream", "json_stream", "done", "raised"
    stream,              \* the request's stream flag
    json_mode,           \* the request's json_mode flag
    phase,               \* 0: free-form, 1 and 2: the phases of strict-JSON mode
    prompt,              \* construct_prompt(input_data)
    json_prompt,         \* the Phase 2 prompt, "" before Phase 2
    attempt,             \* loop index of _generate_full_response
    calls,               \* the backend calls made so far, in order
    initial_response,    \* Phase 1's result, <<>> before it exists
    tokens,              \* completion_tokens / formatting_tokens of the stream
    full_json_response,  \* accumulation buffer of _stream_json_formatting
    opened,              \* the streaming backend call has been made
    lines,               \* the lines read from the streamed body so far
    elements,            \* the elements the backend sequence has delivered
    out,                 \* the results yielded so far
    ret,                 \* the returned result, <<>> while there is none
    returned,            \* what generate_response returned: "none", "dict", "generator"
    request_input,       \* the input_data generate_response was called with
    gateway,             \* the state of the HTTP gateway's handler (app.py)
    sanitized,           \* the texts successive sanitize_input calls returned
    suspended            \* the execution context of a second request that waits

vars == <<max_retries, suspended, gateway, request_input, sanitized, pc, stream, json_mode, phase,
          prompt, json_prompt, attempt, calls,
          initial_response, tokens, full_json_response, opened, lines,
          elements, out, ret, returned>>

\* the locals of one request's execution: the arguments and local variables
\* of generate_response and of the function or generator it dispatches to
FreshContext ==
    [request_input |-> NoInput, pc |-> "idle", stream |-> FALSE, json_mode |-> FALSE,
     phase |-> 0, prompt |-> "", json_prompt |-> "", attempt |-> 0, calls |-> <<>>,
     initial_response |-> <<>>, tokens |-> 0, full_json_response |-> "",
     opened |-> FALSE, lines |-> <<>>, elements |-> <<>>, out |-> <<>>, ret |-> <<>>,
     returned |-> "none"]

\* no second request: id 0
NoneSuspended == [id |-> 0, context |-> FreshContext]

\* the variables the orchestrator works on
orchestrator_vars ==
    <<max_retries, request_input, pc, stream, json_mode, phase, prompt, json_prompt,
      attempt, calls, initial_response, tokens, full_json_response, opened, lines,
      elements, out, ret, returned>>

\* either a program uses an instance of the class directly, built with some
\* max_retries, or the gateway listens with its instance OllamaApiWrapper()
Init ==
    /\ \/ gateway = GatewayState("none") /\ max_retries \in 0..MaxRetriesBound
       \/ gateway = GatewayState("listening") /\ max_retries = DefaultMaxRetries
    /\ suspended = NoneSuspended
    /\ request_input = NoInput
    /\ sanitized = <<>>
    /\ pc = "idle"
    /\ stream = FALSE
    /\ json_mode = FALSE
    /\ phase = 0
    /\ prompt = ""
    /\ json_prompt = ""
    /\ attempt = 0
    /\ calls = <<>>
    /\ initial_response = <<>>
    /\ tokens = 0
    /\ full_json_response = ""
    /\ opened = FALSE
    /\ lines = <<>>
    /\ elements = <<>>
    /\ out = <<>>
    /\ ret = <<>>
    /\ returned = "none"

\* the prompt argument of the generation that is running
CurrentPrompt == IF phase = 2 THEN json_prompt ELSE prompt

\* the record of one _make_api_call: its arguments, whether the HTTP
\* exchange failed, and the value it returned
Call(p, s, outcome) ==
    [phase |-> phase, prompt |-> p, data_prompt |-> p \o "\n\nAssistant:",
     stream |-> s, failed |-> outcome.failed, result |-> _make_api_call(outcome)]

\* generate_response: build the prompt and dispatch on the mode.  The
\* streaming functions are generators: nothing of them runs before the
\* first element is asked for.
\* who calls generate_response: a program that uses the class directly, or
\* a handler of the gateway, with the request's messages and flags
CalledWith(input_data, s, j) ==
    IF gateway.pc = "none" THEN input_data \in InputData
    ELSE /\ gateway.pc \in {"streaming", "complete"}
         /\ input_data = ListInput(gateway.messages)
         /\ s = gateway.stream
         /\ j = gateway.json_mode

\* a generator runs only when its consumer asks for the next element: the
\* loop of generate_streaming_response has dealt with every earlier result
NextAskedFor ==
    IF gateway.pc = "none" THEN TRUE
    ELSE gateway.pc = "streaming" /\ gateway.consumed = Len(out)

generate_response(input_data, s, j) ==
    /\ pc = "idle"
    /\ CalledWith(input_data, s, j)
    /\ stream' = s
    /\ json_mode' = j
    /\ request_input' = input_data
    /\ prompt' = construct_prompt(input_data)
    /\ IF j THEN pc' = "full" /\ phase' = 1 /\ returned' = "none"
       ELSE IF s THEN pc' = "stream" /\ phase' = 0 /\ returned' = "generator"
       ELSE pc' = "full" /\ phase' = 0 /\ returned' = "none"
    /\ UNCHANGED <<max_retries, suspended, gateway, sanitized, json_prompt, attempt, calls,
                   initial_response, tokens, full_json_response, opened, lines,
                   elements, out, ret>>

\* "error" in initial_response["response"]: a substring test on the text
HasErrorText(result) == Contains(result.response.text, "error")

\* what follows the return of _generate_full_response: the end of the
\* request (free-form), or the rest of _generate_json_response
FullReturn(result) ==
    IF phase = 0
    THEN /\ ret' = <<result>> /\ returned' = "dict" /\ pc' = "done"
         /\ UNCHANGED <<phase, json_prompt, attempt, initial_response>>
    ELSE IF phase = 1
    THEN /\ initial_response' = <<result>>
         /\ IF HasErrorText(result)
            THEN /\ ret' = <<result>> /\ returned' = "dict" /\ pc' = "done"
                 /\ UNCHANGED <<phase, json_prompt, attempt>>
            ELSE /\ json_prompt' = json_formatting_prompt \o result.response.text
                 /\ phase' = 2
                 /\ attempt' = 0
                 /\ ret' = <<>>
                 /\ IF stream
                    THEN pc' = "json_stream" /\ returned' = "generator"
                    ELSE pc' = "full" /\ returned' = "none"
    ELSE /\ ret' = <<_process_json_response(result, initial_response[1].usage)>>
         /\ returned' = "dict"
         /\ pc' = "done"
         /\ UNCHANGED <<phase, json_prompt, attempt, initial_response>>

IsErrorShapedNever(response) == FALSE

\* isinstance(response, dict) and "error" in response
IsErrorShaped(response) == response.has_error

AttemptsLeftOneMore(a) == a <= max_retries

\* range(self.max_retries) has an index left for another attempt
AttemptsLeft(a) == a < max_retries

NextAttemptSame(a) == a

\* the `for attempt in range(...)` takes the next index
NextAttempt(a) == a + 1

\* one iteration of the loop of _generate_full_response
_generate_full_response_attempt(outcome) ==
    /\ pc = "full"
    /\ AttemptsLeft(attempt)
    /\ calls' = Append(calls, Call(CurrentPrompt, FALSE, outcome))
    /\ LET prompt_tokens == count_tokens(CurrentPrompt)
           response == _make_api_call(outcome)
       IN
       IF IsErrorShaped(response)
       THEN FullReturn(Result(TextResponse(response.error),
                              Usage(prompt_tokens, 0, prompt_tokens)))
       ELSE IF response.has_response
       THEN LET completion_tokens == count_tokens(response.response)
                total_tokens == prompt_tokens + completion_tokens
            IN  FullReturn(Result(TextResponse(response.response),
                                  Usage(prompt_tokens, completion_tokens, total_tokens)))
       ELSE /\ attempt' = NextAttempt(attempt)
            /\ UNCHANGED <<pc, phase, json_prompt, initial_response, ret, returned>>
    /\ UNCHANGED <<max_retries, suspended, gateway, request_input, sanitized,
                   stream, json_mode, prompt, tokens, full_json_response,
                   opened, lines, elements, out>>

\* the loop of _generate_full_response ran out of attempts
_generate_full_response_exhausted ==
    /\ pc = "full"
    /\ ~AttemptsLeft(attempt)
    /\ LET prompt_tokens == count_tokens(CurrentPrompt) IN
       FullReturn(Result(TextResponse(FallbackText), Usage(prompt_tokens, 0, prompt_tokens)))
    /\ UNCHANGED <<max_retries, suspended, gateway, request_input, sanitized,
                   stream, json_mode, prompt, calls, tokens,
                   full_json_response, opened, lines, elements, out>>

\* the first step of a streaming generator: _make_api_call with stream=True.
\* A failed call returns the error dict itself; the generator's `for` then
\* iterates over the dict's keys, the first chunk is the string "error",
\* and chunk.get raises AttributeError before anything is yielded.
_stream_open(outcome) ==
    /\ pc \in {"stream", "json_stream"}
    /\ NextAskedFor
    /\ ~opened
    /\ calls' = Append(calls, Call(CurrentPrompt, TRUE, outcome))
    /\ IF outcome.failed
       THEN pc' = "raised" /\ UNCHANGED opened
       ELSE opened' = TRUE /\ UNCHANGED pc
    /\ UNCHANGED <<max_retries, suspended, gateway, request_input, sanitized,
                   stream, json_mode, phase, prompt, json_prompt, attempt,
                   initial_response, tokens, full_json_response, lines, elements,
                   out, ret, returned>>

\* chunk.get("response", "")
GetResponse(chunk) == IF chunk.has_response THEN chunk.response ELSE ""

StreamErrorResultCounted(message, prompt_tokens, completion_tokens) ==
    Result(TextResponse(message),
           Usage(prompt_tokens, completion_tokens + count_tokens(message),
                 prompt_tokens + completion_tokens + count_tokens(message)))

\* the result _stream_response yields for an error-shaped element
StreamErrorResult(message, prompt_tokens, completion_tokens) ==
    Result(TextResponse(message),
           Usage(prompt_tokens, completion_tokens, prompt_tokens + completion_tokens))

\* the body of the loop of _stream_response for one line of the backend
_stream_response_chunk(line) ==
    /\ pc = "stream"
    /\ NextAskedFor
    /\ opened
    /\ Len(lines) < MaxLines
    /\ lines' = Append(lines, line)
    /\ elements' = elements \o _process_stream(line)
    /\ LET prompt_tokens == count_tokens(prompt) IN
       IF _process_stream(line) = <<>>
       THEN UNCHANGED <<pc, tokens, out>>
       ELSE LET chunk == _process_stream(line)[1] IN
            IF IsErrorShaped(chunk)
            THEN /\ out' = Append(out, StreamErrorResult(chunk.error, prompt_tokens, tokens))
                 /\ pc' = "done"
                 /\ UNCHANGED tokens
            ELSE LET chunk_text == GetResponse(chunk)
                     completion_tokens == tokens + count_tokens(chunk_text)
                 IN  /\ tokens' = completion_tokens
                     /\ out' = Append(out, Result(TextResponse(chunk_text),
                                        Usage(prompt_tokens, completion_tokens,
                                              prompt_tokens + completion_tokens)))
                     /\ UNCHANGED pc
    /\ UNCHANGED <<max_retries, suspended, gateway, request_input, sanitized,
                   stream, json_mode, phase, prompt, json_prompt, attempt, calls,
                   initial_response, full_json_response, opened, ret, returned>>

_stream_response_end_with_terminator ==
    /\ pc = "stream"
    /\ NextAskedFor
    /\ opened
    /\ out' = Append(out, StreamErrorResult("", count_tokens(prompt), tokens))
    /\ pc' = "done"
    /\ UNCHANGED <<max_retries, suspended, gateway, request_input, sanitized,
                   stream, json_mode, phase, prompt, json_prompt, attempt, calls,
                   initial_response, tokens, full_json_response, opened, lines,
                   elements, ret, returned>>

\* the backend closes its stream: the loop of _stream_response ends
_stream_response_end ==
    /\ pc = "stream"
    /\ NextAskedFor
    /\ opened
    /\ pc' = "done"
    /\ UNCHANGED <<max_retries, suspended, gateway, request_input, sanitized,
                   stream, json_mode, phase, prompt, json_prompt, attempt, calls,
                   initial_response, tokens, full_json_response, opened, lines,
                   elements, out, ret, returned>>

\* the usage every result of _stream_json_formatting carries
FormattingUsage(formatting_tokens) ==
    LET prompt_tokens == count_tokens(json_prompt) IN
    _combine_usage(initial_response[1].usage,
                   Usage(prompt_tokens, formatting_tokens,
                         prompt_tokens + formatting_tokens))

AccumulateLast(buffer, chunk_text) == chunk_text

\* full_json_response += chunk_text
Accumulate(buffer, chunk_text) == buffer \o chunk_text

AfterParseNoReturn(parsed_ok) == "json_stream"

\* where _stream_json_formatting stands after the try block: the success
\* branch returns, the except branch goes on with the loop
AfterParse(parsed_ok) == IF parsed_ok THEN "done" ELSE "json_stream"

\* the body of the loop of _stream_json_formatting for one line of the backend
_stream_json_formatting_chunk(line) ==
    /\ pc = "json_stream"
    /\ NextAskedFor
    /\ opened
    /\ Len(lines) < MaxLines
    /\ lines' = Append(lines, line)
    /\ elements' = elements \o _process_stream(line)
    /\ IF _process_stream(line) = <<>>
       THEN UNCHANGED <<pc, tokens, full_json_response, out>>
       ELSE LET chunk == _process_stream(line)[1] IN
            IF IsErrorShaped(chunk)
            THEN /\ out' = Append(out, Result(create_safe_json_response("error", chunk.error),
                                              FormattingUsage(tokens)))
                 /\ pc' = "done"
                 /\ UNCHANGED <<tokens, full_json_response>>
            ELSE LET chunk_text == GetResponse(chunk)
                     buffer == Accumulate(full_json_response, chunk_text)
                     formatting_tokens == tokens + count_tokens(chunk_text)
                     formatted_json == json_loads(buffer)
                 IN  /\ full_json_response' = buffer
                     /\ tokens' = formatting_tokens
                     /\ pc' = AfterParse(formatted_json.ok)
                     /\ IF formatted_json.ok
                        THEN out' = Append(out, Result(JsonResponse(formatted_json),
                                                       FormattingUsage(formatting_tokens)))
                        ELSE out' = Append(out,
                                    Result(create_safe_json_response("streaming", chunk_text),
                                           FormattingUsage(formatting_tokens)))
    /\ UNCHANGED <<max_retries, suspended, gateway, request_input, sanitized,
                   stream, json_mode, phase, prompt, json_prompt, attempt, calls,
                   initial_response, opened, ret, returned>>

_stream_json_formatting_end_initial_usage ==
    /\ pc = "json_stream"
    /\ NextAskedFor
    /\ opened
    /\ out' = Append(out, Result(create_safe_json_response("error", JsonFailureText),
                                 FormattingUsage(0)))
    /\ pc' = "done"
    /\ UNCHANGED <<max_retries, suspended, gateway, request_input, sanitized,
                   stream, json_mode, phase, prompt, json_prompt, attempt, calls,
                   initial_response, tokens, full_json_response, opened, lines,
                   elements, ret, returned>>

\* the backend closes its stream before the buffer ever parsed
_stream_json_formatting_end ==
    /\ pc = "json_stream"
    /\ NextAskedFor
    /\ opened
    /\ out' = Append(out, Result(create_safe_json_response("error", JsonFailureText),
                                 FormattingUsage(tokens)))
    /\ pc' = "done"
    /\ UNCHANGED <<max_retries, suspended, gateway, request_input, sanitized,
                   stream, json_mode, phase, prompt, json_prompt, attempt, calls,
                   initial_response, tokens, full_json_response, opened, lines,
                   elements, ret, returned>>

\* response.iter_lines() raises in the middle of the body (the connection
\* breaks): _process_stream runs outside the try of _make_api_call, so the
\* exception leaves the generator
_process_stream_raises ==
    /\ pc \in {"stream", "json_stream"}
    /\ NextAskedFor
    /\ opened
    /\ pc' = "raised"
    /\ UNCHANGED <<max_retries, suspended, gateway, request_input, sanitized,
                   stream, json_mode, phase, prompt, json_prompt, attempt, calls,
                   initial_response, tokens, full_json_response, opened, lines,
                   elements, out, ret, returned>>

(***************************************************************************)
(* The handlers of the gateway.                                            *)
(***************************************************************************)
\* require_api_key and chat_completions up to the dispatch: 401 without a
\* valid key, 403 for a model outside the allowed ones, else the request is
\* handed to generate_streaming_response or generate_complete_response
chat_completions(auth_header, verify_up, models_up, model, messages, s, j) ==
    /\ gateway.pc = "listening"
    /\ IF auth_header = NoHeader \/ ~verify_api_key(BearerKey(auth_header), verify_up)
       THEN gateway' = [gateway EXCEPT !.pc = "answered", !.status = 401]
       ELSE LET all_messages == WithSystemMessage(messages)
                api_key == BearerKey(auth_header)
                allowed_models == get_allowed_models(api_key, models_up)
                prompt_tokens == app_count_tokens(app_construct_prompt(all_messages))
            IN  IF ~ModelAllowed(model, allowed_models)
                THEN gateway' = [gateway EXCEPT !.pc = "answered", !.status = 403,
                                                !.model = model,
                                                !.allowed_models = allowed_models,
                                                !.stream = s,
                                                !.json_mode = j]
                ELSE gateway' = [gateway EXCEPT !.pc = IF s THEN "streaming" ELSE "complete",
                                                !.status = IF s THEN 200 ELSE 0,
                                                !.model = model,
                                                !.allowed_models = allowed_models,
                                                !.messages = all_messages,
                                                !.stream = s,
                                                !.json_mode = j,
                                                !.prompt_tokens = prompt_tokens]
    /\ UNCHANGED <<orchestrator_vars, suspended, sanitized>>

CompletionAfterLast(completion_tokens, chunk_tokens) == chunk_tokens

\* completion_tokens += count_tokens(chunk_text)
CompletionAfter(completion_tokens, chunk_tokens) == completion_tokens + chunk_tokens

\* the body of the loop of generate_streaming_response for one result of the
\* orchestrator.  count_tokens raises TypeError on a `response` that is not
\* a string (the dict of create_safe_json_response, a parsed JSON value).
generate_streaming_response_chunk ==
    /\ gateway.pc = "streaming"
    /\ returned = "generator"
    /\ gateway.consumed < Len(out)
    /\ LET chunk == out[gateway.consumed + 1]
           chunk_text == chunk.response
       IN  IF chunk_text.kind # "text"
           THEN gateway' = [gateway EXCEPT !.pc = "raised", !.consumed = @ + 1]
           ELSE LET completion_tokens ==
                        CompletionAfter(gateway.completion_tokens,
                                        app_count_tokens(chunk_text.text))
                    total_tokens == gateway.prompt_tokens + completion_tokens
                    usage == Usage(gateway.prompt_tokens, completion_tokens, total_tokens)
                    accumulated_json == gateway.accumulated_json \o chunk_text.text
                    parsed_json == json_loads(accumulated_json)
                    formatted_chunk ==
                        json_dumps_indent(parsed_json.depth, parsed_json.num, 0)
                IN  gateway' =
                        [gateway EXCEPT
                            !.consumed = @ + 1,
                            !.completion_tokens = completion_tokens,
                            !.accumulated_json =
                                IF ~gateway.json_mode THEN @
                                ELSE IF parsed_json.ok THEN "" ELSE accumulated_json,
                            !.events =
                                IF ~gateway.json_mode
                                THEN Append(@, ChunkEvent(chunk_text.text, usage))
                                ELSE IF parsed_json.ok
                                THEN Append(@, ChunkEvent(formatted_chunk, usage))
                                ELSE @]
    /\ UNCHANGED <<orchestrator_vars, suspended, sanitized>>

\* the orchestrator's sequence has ended: what is left of the buffer, then
\* the literal "data: [DONE]"
generate_streaming_response_end ==
    /\ gateway.pc = "streaming"
    /\ returned = "generator"
    /\ pc = "done"
    /\ gateway.consumed = Len(out)
    /\ LET usage == Usage(gateway.prompt_tokens, gateway.completion_tokens,
                          gateway.prompt_tokens + gateway.completion_tokens)
           parsed_json == json_loads(gateway.accumulated_json)
           rest == IF gateway.json_mode /\ gateway.accumulated_json # ""
                   THEN <<ChunkEvent(IF parsed_json.ok
                                     THEN json_dumps_indent(parsed_json.depth,
                                                            parsed_json.num, 0)
                                     ELSE gateway.accumulated_json,
                                     usage)>>
                   ELSE <<>>
       IN  gateway' = [gateway EXCEPT !.pc = "done",
                                      !.events = @ \o rest \o <<DoneEvent>>]
    /\ UNCHANGED <<orchestrator_vars, suspended, sanitized>>

\* the `for` of generate_streaming_response gets an exception instead of a
\* result: the orchestrator's generator raised, or generate_response
\* returned a dict, whose keys are strings without a `get`
IterationRaises == pc = "raised" \/ (pc = "done" /\ returned = "dict")

\* the exception leaves generate_streaming_response: nothing after the loop
\* runs
generate_streaming_response_raises ==
    /\ gateway.pc = "streaming"
    /\ gateway.consumed = Len(out)
    /\ IterationRaises
    /\ gateway' = [gateway EXCEPT !.pc = "raised"]
    /\ UNCHANGED <<orchestrator_vars, suspended, sanitized>>

\* generate_complete_response after generate_response has returned, and the
\* jsonify of chat_completions.  (The handler writes the formatted text back
\* into the dict it was given; ret keeps what the orchestrator returned.)
generate_complete_response ==
    /\ gateway.pc = "complete"
    /\ pc = "done"
    /\ returned = "dict"
    /\ LET response == ret[1]
           parsed_json == json_loads(response.response.text)
           content == IF gateway.json_mode /\ parsed_json.ok
                      THEN json_dumps_indent(parsed_json.depth, parsed_json.num, 0)
                      ELSE response.response.text
           completion_tokens == app_count_tokens(content)
           total_tokens == gateway.prompt_tokens + completion_tokens
       IN  gateway' = [gateway EXCEPT
                          !.pc = "done",
                          !.status = 200,
                          !.completion_tokens = completion_tokens,
                          !.envelope = <<Envelope(content,
                                                  Usage(gateway.prompt_tokens,
                                                        completion_tokens,
                                                        total_tokens))>>]
    /\ UNCHANGED <<orchestrator_vars, suspended, sanitized>>

\* the inputs generate_response can be called with
CallInputs == InputData \cup {ListInput(WithSystemMessage(m)) : m \in GatewayMessages}

Next ==
    \/ \E input_data \in CallInputs, s \in BOOLEAN, j \in BOOLEAN :
           generate_response(input_data, s, j)
    \/ \E outcome \in BlockingOutcomes : _generate_full_response_attempt(outcome)
    \/ _generate_full_response_exhausted
    \/ \E outcome \in StreamingOutcomes : _stream_open(outcome)
    \/ \E line \in StreamLines : _stream_response_chunk(line)
    \/ _stream_response_end
    \/ \E line \in StreamLines : _stream_json_formatting_chunk(line)
    \/ _stream_json_formatting_end
    \/ _process_stream_raises
    \/ \E auth_header \in AuthHeaders, verify_up \in BOOLEAN, models_up \in BOOLEAN,
          model \in Models, messages \in GatewayMessages, s \in BOOLEAN, j \in BOOLEAN :
           chat_completions(auth_header, verify_up, models_up, model, messages, s, j)
    \/ generate_streaming_response_chunk
    \/ generate_streaming_response_end
    \/ generate_streaming_response_raises
    \/ generate_complete_response

Spec == Init /\ [][Next]_vars

(***************************************************************************)
(* The orchestrator used directly and run to its end: a call of            *)
(* generate_response is synchronous, so a started function takes its next  *)
(* step; the caller iterates a returned generator until it is exhausted;   *)
(* every backend call comes back and the backend closes its stream after   *)
(* finitely many lines (at most MaxRunLines here).                         *)
(***************************************************************************)
OrchestratorInit == Init /\ gateway = GatewayState("none")

OrchestratorNext ==
    \/ \E input_data \in InputData, s \in BOOLEAN, j \in BOOLEAN :
           generate_response(input_data, s, j)
    \/ \E outcome \in BlockingOutcomes : _generate_full_response_attempt(outcome)
    \/ _generate_full_response_exhausted
    \/ \E outcome \in StreamingOutcomes : _stream_open(outcome)
    \/ \E line \in StreamLines :
           Len(lines) < MaxRunLines /\ _stream_response_chunk(line)
    \/ _stream_response_end
    \/ \E line \in StreamLines :
           Len(lines) < MaxRunLines /\ _stream_json_formatting_chunk(line)
    \/ _stream_json_formatting_end
    \/ _process_stream_raises

\* the next step of a request that has started
RequestStep == pc # "idle" /\ OrchestratorNext

OrchestratorSpec ==
    OrchestratorInit /\ [][OrchestratorNext]_vars /\ WF_vars(RequestStep)

(***************************************************************************)
(* Two requests side by side on one OllamaApiWrapper.  The variables hold  *)
(* the execution context of the request whose thread runs; `suspended`     *)
(* holds the context of the other one.  Everything generate_response and   *)
(* the functions below it work on is an argument or a local variable, so   *)
(* it belongs to the context; self.max_retries belongs to the instance.    *)
(***************************************************************************)
\* the request whose thread runs: 1 or 2
Running == 3 - suspended.id

\* the execution context of the running request
Context ==
    [request_input |-> request_input, pc |-> pc, stream |-> stream,
     json_mode |-> json_mode, phase |-> phase, prompt |-> prompt,
     json_prompt |-> json_prompt, attempt |-> attempt, calls |-> calls,
     initial_response |-> initial_response, tokens |-> tokens,
     full_json_response |-> full_json_response, opened |-> opened, lines |-> lines,
     elements |-> elements, out |-> out, ret |-> ret, returned |-> returned]

\* what the two requests ask and what the backend answers them
ConcurrentInput(id) ==
    IF id = 1 THEN StrInput("Hi <b>there</b>!")
    ELSE ListInput(<<DictMessage("system", "Be brief."), DictMessage("user", "2+2=?")>>)

ConcurrentOutcomes ==
    {Failure("connection error"), Answer(ResponseDict("ok")), Answer(EmptyDict)}

ConcurrentStreamingOutcomes == {Failure("connection error"), Answer(EmptyDict)}

ConcurrentLines ==
    {JsonLine(ResponseDict(ObjOpen)), JsonLine(ResponseDict("1")), MalformedLine}

ConcurrentInit ==
    /\ gateway = GatewayState("none")
    /\ max_retries \in 0..MaxRetriesBound
    /\ suspended = [id |-> 2, context |-> FreshContext]
    /\ sanitized = <<>>
    /\ request_input = NoInput
    /\ pc = "idle"
    /\ stream = FALSE
    /\ json_mode = FALSE
    /\ phase = 0
    /\ prompt = ""
    /\ json_prompt = ""
    /\ attempt = 0
    /\ calls = <<>>
    /\ initial_response = <<>>
    /\ tokens = 0
    /\ full_json_response = ""
    /\ opened = FALSE
    /\ lines = <<>>
    /\ elements = <<>>
    /\ out = <<>>
    /\ ret = <<>>
    /\ returned = "none"

RestoredTokensShared(context) == tokens

\* completion_tokens / formatting_tokens is a local of the generator: the
\* thread that resumes finds its own
RestoredTokens(context) == context.tokens

\* the scheduler lets the other request run
switch ==
    /\ suspended.id # 0
    /\ suspended' = [id |-> Running, context |-> Context]
    /\ request_input' = suspended.context.request_input
    /\ pc' = suspended.context.pc
    /\ stream' = suspended.context.stream
    /\ json_mode' = suspended.context.json_mode
    /\ phase' = suspended.context.phase
    /\ prompt' = suspended.context.prompt
    /\ json_prompt' = suspended.context.json_prompt
    /\ attempt' = suspended.context.attempt
    /\ calls' = suspended.context.calls
    /\ initial_response' = suspended.context.initial_response
    /\ tokens' = RestoredTokens(suspended.context)
    /\ full_json_response' = suspended.context.full_json_response
    /\ opened' = suspended.context.opened
    /\ lines' = suspended.context.lines
    /\ elements' = suspended.context.elements
    /\ out' = suspended.context.out
    /\ ret' = suspended.context.ret
    /\ returned' = suspended.context.returned
    /\ UNCHANGED <<max_retries, gateway, sanitized>>

ConcurrentNext ==
    \/ \E s \in BOOLEAN, j \in BOOLEAN : generate_response(ConcurrentInput(Running), s, j)
    \/ \E outcome \in ConcurrentOutcomes : _generate_full_response_attempt(outcome)
    \/ _generate_full_response_exhausted
    \/ \E outcome \in ConcurrentStreamingOutcomes : _stream_open(outcome)
    \/ \E line \in ConcurrentLines :
           Len(lines) < MaxConcurrentLines /\ _stream_response_chunk(line)
    \/ _stream_response_end
    \/ \E line \in ConcurrentLines :
           Len(lines) < MaxConcurrentLines /\ _stream_json_formatting_chunk(line)
    \/ _stream_json_formatting_end
    \/ _process_stream_raises
    \/ switch

ConcurrentSpec == ConcurrentInit /\ [][ConcurrentNext]_vars

(***************************************************************************)
(* The Backend Client on its own: the lines of one streamed body go        *)
(* through _process_stream, whoever consumes the elements.                 *)
(***************************************************************************)
ClientInit ==
    /\ gateway = GatewayState("none")
    /\ max_retries = DefaultMaxRetries
    /\ suspended = NoneSuspended
    /\ request_input = NoInput
    /\ sanitized = <<>>
    /\ pc = "client"
    /\ stream = TRUE
    /\ json_mode = FALSE
    /\ phase = 0
    /\ prompt = ""
    /\ json_prompt = ""
    /\ attempt = 0
    /\ calls = <<>>
    /\ initial_response = <<>>
    /\ tokens = 0
    /\ full_json_response = ""
    /\ opened = TRUE
    /\ lines = <<>>
    /\ elements = <<>>
    /\ out = <<>>
    /\ ret = <<>>
    /\ returned = "none"

\* one turn of the loop of _process_stream
_process_stream_line(line) ==
    /\ pc = "client"
    /\ Len(lines) < MaxLines
    /\ lines' = Append(lines, line)
    /\ elements' = elements \o _process_stream(line)
    /\ UNCHANGED <<max_retries, suspended, gateway, request_input, sanitized, pc, stream, json_mode,
                   phase, prompt, json_prompt, attempt, calls, initial_response, tokens,
                   full_json_response, opened, out, ret, returned>>

\* response.iter_lines() raises: the connection broke
iter_lines_raises ==
    /\ pc = "client"
    /\ pc' = "raised"
    /\ UNCHANGED <<max_retries, suspended, gateway, request_input, sanitized, stream, json_mode,
                   phase, prompt, json_prompt, attempt, calls, initial_response, tokens,
                   full_json_response, opened, lines, elements, out, ret, returned>>

ClientNext ==
    \/ \E line \in StreamLines : _process_stream_line(line)
    \/ iter_lines_raises

ClientSpec == ClientInit /\ [][ClientNext]_vars

(***************************************************************************)
(* The Prompt Builder on its own: construct_prompt on an input, and        *)
(* sanitize_input applied to a text and again to its own result.           *)
(***************************************************************************)
BuilderInit ==
    /\ gateway = GatewayState("none")
    /\ max_retries = DefaultMaxRetries
    /\ suspended = NoneSuspended
    /\ request_input \in PromptInputs
    /\ sanitized = <<>>
    /\ pc = "builder"
    /\ stream = FALSE
    /\ json_mode = FALSE
    /\ phase = 0
    /\ prompt = ""
    /\ json_prompt = ""
    /\ attempt = 0
    /\ calls = <<>>
    /\ initial_response = <<>>
    /\ tokens = 0
    /\ full_json_response = ""
    /\ opened = FALSE
    /\ lines = <<>>
    /\ elements = <<>>
    /\ out = <<>>
    /\ ret = <<>>
    /\ returned = "none"

\* prompt = self.construct_prompt(input_data)
construct_prompt_call ==
    /\ pc = "builder"
    /\ prompt' = construct_prompt(request_input)
    /\ pc' = "built"
    /\ UNCHANGED <<max_retries, suspended, gateway, request_input, sanitized, stream, json_mode,
                   phase, json_prompt, attempt, calls, initial_response, tokens,
                   full_json_response, opened, lines, elements, out, ret, returned>>

\* sanitize_input on the input text, then on what it returned
sanitize_input_call ==
    /\ pc \in {"builder", "sanitizing"}
    /\ request_input.kind = "str"
    /\ Len(sanitized) < MaxSanitizeCalls
    /\ sanitized' = Append(sanitized,
                           sanitize_input(IF sanitized = <<>> THEN request_input.text
                                          ELSE sanitized[Len(sanitized)]))
    /\ pc' = "sanitizing"
    /\ UNCHANGED <<max_retries, suspended, gateway, request_input, stream, json_mode, phase, prompt,
                   json_prompt, attempt, calls, initial_response, tokens,
                   full_json_response, opened, lines, elements, out, ret, returned>>

BuilderNext ==
    \/ construct_prompt_call
    \/ sanitize_input_call

BuilderSpec == BuilderInit /\ [][BuilderNext]_vars

(***************************************************************************)
(* Observations on the log of backend calls and on the results.            *)
(***************************************************************************)
\* the backend calls of one phase, in order
PhaseCalls(ph) == SelectSeq(calls, LAMBDA c : c.phase = ph)

\* the call got a 2xx answer that is not error-shaped and has no `response`
LacksResponse(c) == ~c.failed /\ ~c.result.has_error /\ ~c.result.has_response

\* the call came back with an error-shaped result
CameBackError(c) == c.failed \/ c.result.has_error

\* every result the request has produced so far
AllResults == {out[i] : i \in 1..Len(out)} \cup {ret[i] : i \in 1..Len(ret)}
                  \cup {initial_response[i] : i \in 1..Len(initial_response)}

\* the full-response generation of phase ph has returned
FullReturned(ph) ==
    IF ph = 1 THEN initial_response # <<>>
    ELSE pc = "done" /\ ~stream /\ phase = ph

\* the result the full-response generation of a phase would have to return
\* for the text `text` with no completion tokens, seen through
\* _process_json_response for Phase 2
ReturnedWithoutCompletion(ph, text) ==
    LET p == IF ph = 2 THEN json_prompt ELSE prompt
        n == count_tokens(p)
        own == Result(TextResponse(text), Usage(n, 0, n))
    IN  IF ph = 1 THEN initial_response = <<own>>
        ELSE IF ph = 0 THEN ret = <<own>>
        ELSE ret = <<Result(own.response,
                            [prompt_tokens |-> initial_response[1].usage.prompt_tokens + n,
                             completion_tokens |-> initial_response[1].usage.completion_tokens,
                             total_tokens |-> initial_response[1].usage.total_tokens + n])>>

(***************************************************************************)
(* C1: every result the orchestrator produces (returned, yielded, or kept  *)
(* as Phase 1's result) has total_tokens = prompt_tokens +                 *)
(* completion_tokens.                                                      *)
(***************************************************************************)
C1_UsageTotal ==
    \A r \in AllResults :
        r.usage.total_tokens = r.usage.prompt_tokens + r.usage.completion_tokens

\* a strict-JSON stream that yielded intermediate results and then the
\* parsed value, all with combined usage
C1_Witness ==
    /\ pc = "done" /\ json_mode /\ stream
    /\ Len(out) >= 2
    /\ out[Len(out)].response.kind = "json"
    /\ out[1].usage.completion_tokens > 0

(***************************************************************************)
(* C2: a strict-JSON stream yields at most one success element (the parsed *)
(* value), and once it is yielded nothing more is yielded.                 *)
(***************************************************************************)
IsSuccess(r) == r.response.kind = "json"
Successes(results) == {i \in 1..Len(results) : IsSuccess(results[i])}

C2_OneSuccessThenSilence ==
    [][ /\ Cardinality(Successes(out')) <= 1
        /\ (Successes(out) # {} => out' = out) ]_vars

C2_Witness ==
    /\ pc = "done" /\ json_mode /\ stream
    /\ Len(out) = 3
    /\ Successes(out) = {3}

(***************************************************************************)
(* C3: when every call of a full-response generation comes back without    *)
(* error and without `response`, the generation makes exactly max_retries  *)
(* calls and returns the fallback text with completion_tokens = 0 and      *)
(* total_tokens = prompt_tokens.                                           *)
(***************************************************************************)
Exhausted(ph) ==
    /\ FullReturned(ph)
    /\ \A i \in 1..Len(PhaseCalls(ph)) : LacksResponse(PhaseCalls(ph)[i])

C3_RetryExhaustion ==
    \A ph \in 0..2 :
        Exhausted(ph) =>
            /\ Len(PhaseCalls(ph)) = max_retries
            /\ ReturnedWithoutCompletion(ph, FallbackText)

C3_Witness ==
    /\ Exhausted(0)
    /\ max_retries = 2
    /\ Len(calls) = 2
    /\ ret[1].response.text = FallbackText

(***************************************************************************)
(* C4: on the full-response path an error-shaped result ends the           *)
(* generation at once: it is the generation's last backend call, its       *)
(* message is the returned text with completion_tokens = 0 and             *)
(* total_tokens = prompt_tokens, and a further attempt follows only a      *)
(* call that came back without error and without `response`.               *)
(***************************************************************************)
C4_ErrorReturnedAtOnce ==
    \A ph \in 0..2 :
        LET pcalls == PhaseCalls(ph) IN
        \A i \in 1..Len(pcalls) :
            ~pcalls[i].stream =>
                /\ (i < Len(pcalls) => LacksResponse(pcalls[i]))
                /\ CameBackError(pcalls[i]) =>
                       /\ i = Len(pcalls)
                       /\ FullReturned(ph)
                       /\ ReturnedWithoutCompletion(ph, pcalls[i].result.error)

\* an error on the first of two possible attempts
C4_Witness ==
    /\ pc = "done" /\ ~stream /\ ~json_mode
    /\ max_retries = 2
    /\ Len(calls) = 1
    /\ CameBackError(calls[1])
    /\ ret[1].response.text = calls[1].result.error


(***************************************************************************)
(* C5 as stated: a full-response generation that ends on a transport       *)
(* failure has used all max_retries attempts.                              *)
(***************************************************************************)
C5_TransportFailureRetried ==
    \A ph \in 0..2 :
        LET pcalls == PhaseCalls(ph) IN
        (FullReturned(ph) /\ pcalls # <<>> /\ pcalls[Len(pcalls)].failed)
            => Len(pcalls) = max_retries

(***************************************************************************)
(* C5 amended: a transport failure is never retried.  The failed call is   *)
(* the last backend call of its generation; on the full-response path its  *)
(* message "API request failed: ..." is returned at once as the text with  *)
(* completion_tokens = 0; a streaming call is made at most once.           *)
(***************************************************************************)
FailurePrefix == "API request failed: "

C5_TransportFailureNotRetried ==
    /\ \A ph \in 0..2 :
           LET pcalls == PhaseCalls(ph) IN
           \A i \in 1..Len(pcalls) :
               pcalls[i].failed =>
                   /\ i = Len(pcalls)
                   /\ ~pcalls[i].stream =>
                          /\ FullReturned(ph)
                          /\ SubSeq(pcalls[i].result.error, 1, Len(FailurePrefix)) = FailurePrefix
                          /\ ReturnedWithoutCompletion(ph, pcalls[i].result.error)
    /\ Cardinality({i \in 1..Len(calls) : calls[i].stream}) <= 1

\* a transport failure on the first of two possible attempts
C5_Witness ==
    /\ pc = "done" /\ ~stream /\ ~json_mode
    /\ max_retries = 2
    /\ Len(calls) = 1
    /\ calls[1].failed
    /\ ret[1].usage.completion_tokens = 0

(***************************************************************************)
(* C6 as stated: in strict-JSON mode, when Phase 1's backend call comes    *)
(* back error-shaped, Phase 1's result is returned as the only result and  *)
(* no Phase 2 backend call is made.                                        *)
(***************************************************************************)
Phase1Error ==
    LET pcalls == PhaseCalls(1) IN
    initial_response # <<>> /\ pcalls # <<>> /\ CameBackError(pcalls[Len(pcalls)])

C6_Phase1ErrorEndsRequest ==
    Phase1Error =>
        /\ PhaseCalls(2) = <<>>
        /\ pc = "done" => (ret = initial_response /\ out = <<>>)

(***************************************************************************)
(* C7 as stated: in strict-JSON mode, when Phase 1 returns a backend       *)
(* response that is not error-shaped, Phase 2 runs on the formatting       *)
(* instruction followed by Phase 1's text, with the caller's stream flag.  *)
(***************************************************************************)
Phase1Response ==
    LET pcalls == PhaseCalls(1) IN
    /\ initial_response # <<>> /\ pcalls # <<>>
    /\ ~CameBackError(pcalls[Len(pcalls)])
    /\ pcalls[Len(pcalls)].result.has_response

C7_Phase2RunsOnPhase1Text ==
    Phase1Response =>
        /\ phase = 2
        /\ json_prompt = json_formatting_prompt \o initial_response[1].response.text
        /\ \A i \in 1..Len(PhaseCalls(2)) :
               /\ PhaseCalls(2)[i].prompt = json_prompt
               /\ PhaseCalls(2)[i].stream = stream
        /\ pc = "done" => PhaseCalls(2) # <<>>

(***************************************************************************)
(* The texts and token counts of the first n elements of a stream.         *)
(***************************************************************************)
RECURSIVE TextUpTo(_)
TextUpTo(n) == IF n = 0 THEN "" ELSE TextUpTo(n - 1) \o GetResponse(elements[n])

RECURSIVE TokensUpTo(_)
TokensUpTo(n) ==
    IF n = 0 THEN 0 ELSE TokensUpTo(n - 1) + count_tokens(GetResponse(elements[n]))

NoErrorUpTo(n) == \A i \in 1..n : ~elements[i].has_error

\* Phase 1's usage plus Phase 2's usage after n elements, p2 being the
\* token count of the Phase 2 prompt
CombinedUsageAfter(p2, n) ==
    LET u1 == initial_response[1].usage
        c2 == TokensUpTo(n)
    IN  [prompt_tokens |-> u1.prompt_tokens + p2,
         completion_tokens |-> u1.completion_tokens + c2,
         total_tokens |-> u1.total_tokens + p2 + c2]

JsonStreaming == json_mode /\ stream /\ phase = 2

(***************************************************************************)
(* C8: in a strict-JSON stream every element read before the buffer parses *)
(* yields one "streaming" result with the element's text; the first        *)
(* element after which the concatenation of all texts parses yields the    *)
(* parsed value with Phase 1 usage + Phase 2 usage so far, and it is the   *)
(* last element read and the last result yielded.                          *)
(***************************************************************************)
C8_SuccessAtFirstParse ==
    JsonStreaming =>
        LET p2 == count_tokens(json_prompt) IN
        /\ Len(out) >= Len(elements)
        /\ \A i \in 1..Len(out) :
               IsSuccess(out[i]) => i <= Len(elements) /\ NoErrorUpTo(i)
        /\ \A i \in 1..Len(elements) :
               NoErrorUpTo(i) =>
                   LET parsed == json_loads(TextUpTo(i)) IN
                   IF parsed.ok
                   THEN /\ out[i] = Result(JsonResponse(parsed), CombinedUsageAfter(p2, i))
                        /\ i = Len(out)
                        /\ i = Len(elements)
                        /\ _process_stream(lines[Len(lines)]) # <<>>
                        /\ pc = "done"
                   ELSE out[i] = Result(create_safe_json_response("streaming",
                                                                  GetResponse(elements[i])),
                                        CombinedUsageAfter(p2, i))

\* {"a": then 1 then } : the buffer parses at the third chunk only
C8_Witness ==
    /\ JsonStreaming /\ pc = "done"
    /\ Len(elements) = 3
    /\ Successes(out) = {3}
    /\ out[3].response.depth = 1 /\ out[3].response.num = 1
    /\ out[1].response.status = "streaming" /\ out[1].response.text = ObjOpen

(***************************************************************************)
(* C9: when a strict-JSON stream ends without an error-shaped element and  *)
(* without the buffer ever parsing, the sequence ends with exactly one     *)
(* "error" result reporting the JSON formatting failure, and its usage is  *)
(* the usage of the last intermediate result (Phase 1 usage + Phase 2      *)
(* usage at its last value).                                               *)
(***************************************************************************)
EndedUnparsed ==
    /\ JsonStreaming /\ pc = "done"
    /\ NoErrorUpTo(Len(elements))
    /\ Successes(out) = {}

C9_FormattingFailureAtEnd ==
    EndedUnparsed =>
        LET n == Len(out) IN
        /\ n = Len(elements) + 1
        /\ out[n].response = create_safe_json_response("error", JsonFailureText)
        /\ \A i \in 1..(n - 1) : out[i].response.status = "streaming"
        /\ out[n].usage = CombinedUsageAfter(count_tokens(json_prompt), n - 1)
        /\ n > 1 => out[n].usage = out[n - 1].usage

C9_Witness ==
    /\ EndedUnparsed
    /\ Len(out) = 3
    /\ out[2].usage.completion_tokens > initial_response[1].usage.completion_tokens
    /\ out[3].response.status = "error"

(***************************************************************************)
(* C10: in a free-form stream an error-shaped element yields one result    *)
(* with the error text and the counters accumulated from the elements      *)
(* before it, and it is the last element read and the last result yielded. *)
(***************************************************************************)
FreeStreaming == stream /\ ~json_mode

C10_StreamErrorIsTerminal ==
    FreeStreaming =>
        \A i \in 1..Len(elements) :
            elements[i].has_error =>
                LET p == count_tokens(prompt) IN
                /\ i = Len(elements)
                /\ Len(out) = i
                /\ pc = "done"
                /\ out[i] = Result(TextResponse(elements[i].error),
                                   Usage(p, TokensUpTo(i - 1), p + TokensUpTo(i - 1)))
                /\ \A j \in 1..(i - 1) : out[j].response.text = GetResponse(elements[j])
                /\ i > 1 => out[i].usage = out[i - 1].usage

C10_Witness ==
    /\ FreeStreaming /\ pc = "done"
    /\ Len(elements) = 3
    /\ elements[3].has_error
    /\ Len(out) = 3
    /\ out[3].usage.completion_tokens > 0

(***************************************************************************)
(* C11 as stated: a streaming backend call that fails in transport makes   *)
(* the orchestrator's sequence yield one error-shaped result and end; no   *)
(* exception reaches the caller and the streaming call is the only one of  *)
(* its generation.                                                         *)
(***************************************************************************)
StreamingCallFailed == \E i \in 1..Len(calls) : calls[i].stream /\ calls[i].failed

C11_StreamFailureIsAValue ==
    StreamingCallFailed =>
        /\ pc = "done"
        /\ Len(out) = 1
        /\ out[1].response.text = calls[Len(calls)].result.error
        /\ Cardinality({i \in 1..Len(calls) : calls[i].stream}) = 1

(***************************************************************************)
(* C15: in strict-JSON blocking mode the returned result has the text of   *)
(* Phase 2's own result and the field-wise sum of Phase 1's usage and      *)
(* Phase 2's usage, also when Phase 2 ends on an error-shaped call or on   *)
(* the fallback of its exhausted retries.                                  *)
(***************************************************************************)
BlockingJsonReturned == pc = "done" /\ json_mode /\ ~stream /\ phase = 2

\* the text Phase 2's generation comes to, read off its backend calls
Phase2RawText ==
    LET pcalls == PhaseCalls(2) IN
    IF pcalls = <<>> THEN FallbackText
    ELSE LET last == pcalls[Len(pcalls)].result IN
         IF last.has_error THEN last.error
         ELSE IF last.has_response THEN last.response
         ELSE FallbackText

\* the completion tokens of Phase 2's own result
Phase2Completion ==
    LET pcalls == PhaseCalls(2) IN
    IF pcalls = <<>> THEN 0
    ELSE LET last == pcalls[Len(pcalls)].result IN
         IF ~last.has_error /\ last.has_response THEN count_tokens(last.response) ELSE 0

C15_BlockingJsonSumsUsage ==
    BlockingJsonReturned =>
        LET u1 == initial_response[1].usage
            p2 == count_tokens(json_prompt)
            c2 == Phase2Completion
        IN  /\ Len(ret) = 1
            /\ ret[1].response = TextResponse(Phase2RawText)
            /\ ret[1].usage.prompt_tokens = u1.prompt_tokens + p2
            /\ ret[1].usage.completion_tokens = u1.completion_tokens + c2
            /\ ret[1].usage.total_tokens = u1.total_tokens + p2 + c2

\* Phase 1 generated a text, Phase 2 ended on an error-shaped call
C15_Witness ==
    /\ BlockingJsonReturned
    /\ initial_response[1].usage.completion_tokens > 0
    /\ PhaseCalls(2) # <<>>
    /\ PhaseCalls(2)[Len(PhaseCalls(2))].result.has_error
    /\ ret[1].response.text = "internal error"

(***************************************************************************)
(* C12 as stated: every authorized streaming request to the                *)
(* chat-completions endpoint ends its event stream with exactly one        *)
(* "data: [DONE]" event, after all chunk events, as the last event.        *)
(***************************************************************************)
DoneEvents(events) == {i \in 1..Len(events) : events[i].kind = "done"}

\* the handler of a streaming request has run to its end, one way or another
EventStreamEnded == gateway.stream /\ gateway.pc \in {"done", "raised"}

C12_DoneIsLastEvent ==
    EventStreamEnded => DoneEvents(gateway.events) = {Len(gateway.events)}

(***************************************************************************)
(* C13: a request that names a model outside the models allowed for its    *)
(* key is answered with 403, and generate_response is never called for it: *)
(* no backend call, no result, no event, with stream set or not.           *)
(***************************************************************************)
ModelOutsideAllowed == gateway.model # "" /\ gateway.model \notin gateway.allowed_models

C13_DeniedBeforeOrchestrator ==
    ModelOutsideAllowed =>
        /\ gateway.status = 403
        /\ gateway.pc = "answered"
        /\ pc = "idle" /\ returned = "none" /\ request_input = NoInput
        /\ calls = <<>> /\ out = <<>> /\ ret = <<>>
        /\ gateway.events = <<>> /\ gateway.envelope = <<>>

\* a streaming request for a model that is granted to another key only
C13_Witness ==
    /\ gateway.status = 403
    /\ gateway.stream
    /\ gateway.model = "mixtral"
    /\ gateway.allowed_models = {"llama3"}

(***************************************************************************)
(* C14: within one streaming request completion_tokens never decreases     *)
(* from one result to the next and prompt_tokens is the same on all of     *)
(* them, for the orchestrator's results and for the gateway's chunk        *)
(* events; completion_tokens grows strictly from a chunk event to the next *)
(* when the new event's text has at least one token, and so it does on the *)
(* orchestrator's free-form results made from a backend chunk.             *)
(***************************************************************************)
ChunkEvents == SelectSeq(gateway.events, LAMBDA e : e.kind = "chunk")

C14_CompletionTokensMonotone ==
    /\ stream =>
           \A i \in 1..(Len(out) - 1) :
               /\ out[i + 1].usage.completion_tokens >= out[i].usage.completion_tokens
               /\ out[i + 1].usage.prompt_tokens = out[i].usage.prompt_tokens
               /\ (/\ ~json_mode
                   /\ ~elements[i + 1].has_error
                   /\ count_tokens(out[i + 1].response.text) >= 1)
                      => out[i + 1].usage.completion_tokens > out[i].usage.completion_tokens
    /\ \A i \in 1..(Len(ChunkEvents) - 1) :
           /\ ChunkEvents[i + 1].usage.completion_tokens
                  >= ChunkEvents[i].usage.completion_tokens
           /\ ChunkEvents[i + 1].usage.prompt_tokens = ChunkEvents[i].usage.prompt_tokens
           /\ count_tokens(ChunkEvents[i + 1].content) >= 1
                  => ChunkEvents[i + 1].usage.completion_tokens
                         > ChunkEvents[i].usage.completion_tokens

\* three chunk events, the second one with an empty text, then [DONE]
C14_Witness ==
    /\ gateway.pc = "done" /\ gateway.stream
    /\ Len(ChunkEvents) = 3
    /\ ChunkEvents[2].content = ""
    /\ ChunkEvents[2].usage.completion_tokens = ChunkEvents[1].usage.completion_tokens
    /\ ChunkEvents[3].usage.completion_tokens > ChunkEvents[2].usage.completion_tokens

(***************************************************************************)
(* C16 as stated: in strict-JSON mode the usage of the response envelope   *)
(* is the usage the orchestrator produced for the result, i.e. the         *)
(* field-wise sum over both chained backend calls.                         *)
(***************************************************************************)
C16_EnvelopeUsageIsOrchestratorUsage ==
    (gateway.json_mode /\ phase = 2 /\ gateway.envelope # <<>>) =>
        gateway.envelope[1].usage = ret[1].usage

(***************************************************************************)
(* C17: the Backend Client's sequence has exactly one element per          *)
(* non-empty line of the body, in the order of the lines: the parsed       *)
(* object of a line that is JSON, an error-shaped element for a line that  *)
(* is not; a malformed line does not end the sequence.                     *)
(***************************************************************************)
NonEmptyLines == SelectSeq(lines, LAMBDA l : l.kind # "empty")

C17_OneElementPerLine ==
    /\ Len(elements) = Len(NonEmptyLines)
    /\ \A i \in 1..Len(NonEmptyLines) :
           IF NonEmptyLines[i].kind = "json"
           THEN elements[i] = NonEmptyLines[i].obj
           ELSE elements[i].has_error /\ ~elements[i].has_response

\* a malformed line, an empty line, then a line that parses
C17_Witness ==
    /\ pc = "client"
    /\ Len(lines) = 3
    /\ lines[1].kind = "malformed" /\ lines[2].kind = "empty" /\ lines[3].kind = "json"
    /\ Len(elements) = 2
    /\ elements[1].error = StreamParseErrorText
    /\ elements[2] = ResponseDict("1")

(***************************************************************************)
(* C19: in the output of construct_prompt every sanitized segment (the     *)
(* content of a dict message, a string message, a plain-string input) has  *)
(* only word characters, whitespace and . , ! ? - and at most 1000         *)
(* characters; the output for a message list is the segments, each dict's  *)
(* behind its capitalized role and ": ", joined by blank lines; a plain    *)
(* string gives its sanitized form and the empty list gives "".            *)
(***************************************************************************)
AllowedCharacters ==
    LowerLetters \cup UpperLetters \cup Digits
    \cup {"_", " ", "\n", "\t", "\r", ".", ",", "!", "?", "-"}

IsSanitized(s) ==
    /\ Len(s) <= 1000
    /\ \A i \in 1..Len(s) : CharAt(s, i) \in AllowedCharacters

\* the messages construct_prompt takes into the prompt
Taken(messages) == SelectSeq(messages, LAMBDA m : m.kind \in {"dict", "str"})

\* the prompt from position `from` on is the parts of ms, joined by "\n\n",
\* each part being a role label (dict messages) and a sanitized segment
RECURSIVE MadeOfSegments(_, _, _)
MadeOfSegments(text, from, ms) ==
    IF ms = <<>> THEN from = Len(text) + 1
    ELSE LET m == Head(ms)
             label == IF m.kind = "dict" THEN capitalize(m.role) \o ": " ELSE ""
             segment == sanitize_input(m.content)
             part == label \o segment
             sep == IF Len(ms) > 1 THEN "\n\n" ELSE ""
         IN  /\ IsSanitized(segment)
             /\ SubSeq(text, from, from + Len(part) + Len(sep) - 1) = part \o sep
             /\ MadeOfSegments(text, from + Len(part) + Len(sep), Tail(ms))

C19_PromptSegmentsSanitized ==
    pc = "built" =>
        IF request_input.kind = "str"
        THEN prompt = sanitize_input(request_input.text) /\ IsSanitized(prompt)
        ELSE /\ MadeOfSegments(prompt, 1, Taken(request_input.messages))
             /\ request_input.messages = <<>> => prompt = ""

\* a message of 1536 characters, cut to 1000 behind its role label
C19_Witness ==
    /\ pc = "built"
    /\ request_input.kind = "list"
    /\ Len(request_input.messages) = 2
    /\ request_input.messages[1].kind = "dict"
    /\ Len(request_input.messages[1].content) > 1000
    /\ request_input.messages[2].kind = "str"
    /\ Len(prompt) = Len("User: ") + 1000 + Len("\n\n") + Len("bHib")

(***************************************************************************)
(* C20: sanitize_input applied to its own result returns it unchanged.     *)
(***************************************************************************)
C20_SanitizeIdempotent ==
    \A i \in 2..Len(sanitized) : sanitized[i] = sanitized[i - 1]

\* a text that loses a character to the first call and none to the second
C20_Witness ==
    /\ Len(sanitized) = 2
    /\ request_input.text = "a<"
    /\ sanitized[1] = "a"
    /\ sanitized[2] = "a"

(***************************************************************************)
(* C18: with two requests interleaved in any way, the prompt, the usage    *)
(* counters, the accumulation buffer and the results of each request are   *)
(* what its own input and its own backend output make them; a step of the  *)
(* running request leaves the context of the other one as it is; and       *)
(* max_retries, the instance's state, is never written.                    *)
(***************************************************************************)
RECURSIVE TextOf(_)
TextOf(els) == IF els = <<>> THEN "" ELSE GetResponse(Head(els)) \o TextOf(Tail(els))

RECURSIVE CountOf(_)
CountOf(els) ==
    IF els = <<>> THEN 0 ELSE count_tokens(GetResponse(Head(els))) + CountOf(Tail(els))

\* the context c of request id holds what the request's own input and the
\* backend's answers to its own calls determine
OwnStateOnly(id, c) ==
    LET p1 == count_tokens(c.prompt)
        p2 == IF c.phase = 2 THEN count_tokens(c.json_prompt) ELSE 0
        c1 == IF c.phase = 2 THEN c.initial_response[1].usage.completion_tokens ELSE 0
    IN  /\ c.request_input \in {NoInput, ConcurrentInput(id)}
        /\ c.pc # "idle" =>
               /\ c.request_input = ConcurrentInput(id)
               /\ c.prompt = construct_prompt(ConcurrentInput(id))
        /\ c.phase = 2 =>
               c.json_prompt = json_formatting_prompt \o c.initial_response[1].response.text
        /\ \A i \in 1..Len(c.calls) :
               c.calls[i].prompt = IF c.calls[i].phase = 2 THEN c.json_prompt ELSE c.prompt
        /\ c.tokens = CountOf(c.elements)
        /\ c.full_json_response = IF c.json_mode THEN TextOf(c.elements) ELSE ""
        /\ \A i \in 1..Len(c.out) :
               LET n == IF i <= Len(c.elements) THEN i ELSE Len(c.elements) IN
               /\ c.out[i].usage.prompt_tokens = p1 + p2
               /\ c.out[i].usage.completion_tokens = c1 + CountOf(SubSeq(c.elements, 1, n))
        /\ \A i \in 1..Len(c.ret) : c.ret[i].usage.prompt_tokens = p1 + p2

C18_RequestsDoNotInterfere ==
    /\ [](OwnStateOnly(Running, Context) /\ OwnStateOnly(suspended.id, suspended.context))
    /\ [][ /\ max_retries' = max_retries
           /\ suspended'.id = suspended.id => suspended' = suspended ]_vars

\* both requests are in the middle of their streams at the same time
C18_Witness ==
    /\ Running = 1
    /\ pc = "json_stream" /\ Len(out) = 1 /\ tokens > 0
    /\ suspended.context.pc = "stream"
    /\ Len(suspended.context.out) = 1
    /\ suspended.context.tokens > 0
    /\ suspended.context.tokens # tokens

(***************************************************************************)
(* C21: the backend calls of one request are bounded whatever the backend  *)
(* answers: at most max_retries in free-form blocking mode, exactly one in *)
(* free-form streaming mode once the generator runs, at most               *)
(* 2 * max_retries in strict-JSON blocking mode and at most                *)
(* max_retries + 1 in strict-JSON streaming mode, of which at most one is  *)
(* a streaming call; and every started request comes to its end, by a      *)
(* return, by the end of its sequence, or by an exception.                 *)
(***************************************************************************)
StreamingCalls == {i \in 1..Len(calls) : calls[i].stream}

\* the calls one run of _generate_full_response made
BlockingCalls(ph) == SelectSeq(calls, LAMBDA c : c.phase = ph /\ ~c.stream)

CallBound ==
    IF json_mode
    THEN IF stream THEN max_retries + 1 ELSE 2 * max_retries
    ELSE IF stream THEN 1 ELSE max_retries

\* the generator of a free-form stream has been asked for its first element
FreeStreamStarted == FreeStreaming /\ (opened \/ pc \in {"done", "raised"})

CallsBounded ==
    pc # "idle" =>
        /\ Len(calls) <= CallBound
        /\ \A ph \in {0, 1, 2} : Len(BlockingCalls(ph)) <= max_retries
        /\ Cardinality(StreamingCalls) <= 1
        /\ ~stream => StreamingCalls = {}
        /\ FreeStreamStarted => Len(calls) = 1

Ended == pc \in {"done", "raised"}

C21_CallsBoundedAndRequestEnds ==
    /\ []CallsBounded
    /\ (pc # "idle") ~> Ended

C21_Witness ==
    /\ json_mode /\ ~stream
    /\ pc = "done"
    /\ max_retries = MaxRetriesBound
    /\ Len(calls) = 2 * max_retries

(***************************************************************************)
(* C22 as stated: a free-form stream yields one result per backend         *)
(* element, in order, up to and including the first error-shaped element;  *)
(* the i-th result's text is the i-th element's `response` text (empty     *)
(* when the field is absent), its completion_tokens the sum of the token   *)
(* counts of the elements 1..i; nothing is appended at the end.            *)
(***************************************************************************)
\* the `response` text of a backend element, empty when the field is absent
ResponseField(element) == IF element.has_response THEN element.response ELSE ""

RECURSIVE ResponseTokensUpTo(_)
ResponseTokensUpTo(n) ==
    IF n = 0 THEN 0
    ELSE ResponseTokensUpTo(n - 1) + count_tokens(ResponseField(elements[n]))

\* the elements up to and including the first error-shaped one
UpToFirstError ==
    IF NoErrorUpTo(Len(elements)) THEN Len(elements)
    ELSE CHOOSE i \in 1..Len(elements) : elements[i].has_error /\ NoErrorUpTo(i - 1)

C22_OneResultPerElement ==
    FreeStreaming =>
        /\ Len(out) = UpToFirstError
        /\ \A i \in 1..Len(out) :
               /\ out[i].response.kind = "text"
               /\ out[i].response.text = ResponseField(elements[i])
               /\ out[i].usage.completion_tokens = ResponseTokensUpTo(i)

(***************************************************************************)
(* C22, amended: as above for the elements that are not error-shaped; the  *)
(* result of the first error-shaped element carries the element's `error`  *)
(* text and the sum of the token counts of the elements before it.         *)
(***************************************************************************)
C22_OneResultPerElementErrorText ==
    FreeStreaming =>
        /\ Len(out) = UpToFirstError
        /\ \A i \in 1..Len(out) :
               /\ out[i].response.kind = "text"
               /\ IF elements[i].has_error
                  THEN /\ out[i].response.text = elements[i].error
                       /\ out[i].usage.completion_tokens = ResponseTokensUpTo(i - 1)
                  ELSE /\ out[i].response.text = ResponseField(elements[i])
                       /\ out[i].usage.completion_tokens = ResponseTokensUpTo(i)

C22_Witness ==
    /\ FreeStreaming /\ pc = "done"
    /\ Len(elements) = 3 /\ Len(out) = 3
    /\ ~elements[1].has_error /\ ~elements[1].has_response
    /\ out[1].response.text = ""
    /\ ~elements[2].has_error
    /\ out[2].usage.completion_tokens > 0
    /\ elements[3].has_error
    /\ out[3].response.text = elements[3].error
    /\ out[3].response.text # ResponseField(elements[3])

====
